---- MODULE Spec2Model ----
(***************************************************************************)
(* Timeline index, clock reading adapter, adaptive timestamp search,       *)
(* quarter discovery and clip resolution of nfl-clip-coach                 *)
(* (backend/services/video_clip/indexer.py and service.py).                *)
(*                                                                         *)
(* Video offsets are Python floats in the source.  Here they are fixed     *)
(* point integers counting 1/Unit of a second; the products with the       *)
(* ratios 1.5, 1.3, 1.2 and 0.5 are exact at this resolution and the       *)
(* secant extrapolation is floored to it.  Game clock values are whole     *)
(* seconds, as in the source.  An absent value (Python None) is the empty  *)
(* sequence <<>> and a present one is <<v>>.                               *)
(***************************************************************************)
EXTENDS Integers, Sequences, FiniteSets, TLC

VARIABLES
    duration,      \* VideoIndexer.duration, in 1/Unit s
    oracle,        \* the clock-reading oracle: what each frame of the video shows
    quarters,      \* VideoIndex.quarters: quarter -> offset
    mappings,      \* VideoIndex.mappings: <<quarter, game_time>> -> offset
    known_frames,  \* VideoIndex.known_frames: rounded offset -> [quarter, time]
    dead_zones,    \* VideoIndex.dead_zones: sequence of <<start, end>>
    disk,          \* the persisted JSON record of the video (<<>> when absent)
    search,        \* the session of the running find_exact_time call
    calls,         \* offsets handed to the oracle by the running operation
    task           \* the running top-level operation and its progress

vars == <<duration, oracle, quarters, mappings, known_frames, dead_zones,
          disk, search, calls, task>>

----------------------------------------------------------------------------
(* Numbers *)

Unit == 100

Sec(n) == n * Unit

Min2(a, b) == IF a <= b THEN a ELSE b
Max2(a, b) == IF a >= b THEN a ELSE b
Abs(a) == IF a < 0 THEN 0 - a ELSE a

\* floor(a / b) for b # 0, whatever the signs
FloorDiv(a, b) == IF b > 0 THEN a \div b ELSE (0 - a) \div (0 - b)

\* Python round(x / Unit, digits) for a step of `step` units: to the nearest
\* multiple of step, ties to the even multiple.
RoundTo(x, step) ==
    LET lowq == x \div step
        rest == x - lowq * step
    IN  IF 2 * rest < step THEN lowq * step
        ELSE IF 2 * rest > step THEN (lowq + 1) * step
        ELSE IF lowq % 2 = 0 THEN lowq * step ELSE (lowq + 1) * step

None == <<>>
Some(v) == <<v>>
\* Python truthiness of an optional float: None and 0.0 are both false
Truthy(x) == x # None /\ x[1] # 0

\* dict helpers
EmptyDict == [k \in {} |-> 0]
DictSet(d, k, v) == [x \in (DOMAIN d) \cup {k} |-> IF x = k THEN v ELSE d[x]]

----------------------------------------------------------------------------
(* VideoIndex *)

MergeGap == 10

\* the loop of add_dead_zone: st = [new |-> new_zone, merged |-> merged]
RECURSIVE MergeLoop(_, _, _)
MergeLoop(zones, i, st) ==
    IF i > Len(zones) THEN st
    ELSE LET zone == zones[i]
             nz == st.new
         IN  IF zone[2] < nz[1] - Sec(MergeGap) \/ zone[1] > nz[2] + Sec(MergeGap)
             THEN MergeLoop(zones, i + 1, [st EXCEPT !.merged = Append(@, zone)])
             ELSE MergeLoop(zones, i + 1,
                     [st EXCEPT !.new = <<Min2(zone[1], nz[1]), Max2(zone[2], nz[2])>>])

\* the loop without the 10 s margin: merges only intervals that overlap
RECURSIVE MergeLoopNoGap(_, _, _)
MergeLoopNoGap(zones, i, st) ==
    IF i > Len(zones) THEN st
    ELSE LET zone == zones[i]
             nz == st.new
         IN  IF zone[2] < nz[1] \/ zone[1] > nz[2]
             THEN MergeLoopNoGap(zones, i + 1, [st EXCEPT !.merged = Append(@, zone)])
             ELSE MergeLoopNoGap(zones, i + 1,
                     [st EXCEPT !.new = <<Min2(zone[1], nz[1]), Max2(zone[2], nz[2])>>])

\* sorted(zs, key=lambda z: z[0]): a stable insertion sort
RECURSIVE InsertByStart(_, _)
InsertByStart(sorted, z) ==
    IF sorted = <<>> THEN <<z>>
    ELSE IF sorted[Len(sorted)][1] <= z[1] THEN Append(sorted, z)
    ELSE Append(InsertByStart(SubSeq(sorted, 1, Len(sorted) - 1), z), sorted[Len(sorted)])

RECURSIVE SortByStart(_)
SortByStart(zs) ==
    IF zs = <<>> THEN <<>>
    ELSE InsertByStart(SortByStart(SubSeq(zs, 1, Len(zs) - 1)), zs[Len(zs)])

MergedZonesNoGap(zones, start, end) ==
    LET st == MergeLoopNoGap(zones, 1, [new |-> <<start, end>>, merged |-> <<>>])
    IN  SortByStart(Append(st.merged, st.new))

\* the value add_dead_zone leaves in self.dead_zones
MergedZones(zones, start, end) ==
    LET st == MergeLoop(zones, 1, [new |-> <<start, end>>, merged |-> <<>>])
    IN  SortByStart(Append(st.merged, st.new))

is_in_dead_zone(zones, vod) ==
    \E i \in 1..Len(zones) : zones[i][1] <= vod /\ vod <= zones[i][2]

is_indexed == DOMAIN quarters # {}

----------------------------------------------------------------------------
(* GameClock and the oracle *)

\* GameClock.total_seconds
total_seconds(clock) == clock.minutes * 60 + clock.seconds

\* GameClock.time_str, "M:SS": the pair <<minutes, seconds>>
time_str(clock) == <<clock.minutes, clock.seconds>>

\* int(parts[0]) * 60 + int(parts[1]) of a game time "M:SS"
target_total_of(game_time) == game_time[1] * 60 + game_time[2]

ClockOf(q, remaining) ==
    [quarter |-> q, minutes |-> remaining \div 60, seconds |-> remaining % 60]

InInterval(t, iv) == iv[1] <= t /\ t <= iv[2]

\* What the vision model reads in the frame at offset t (read_game_clock).
\*   blind:       no clock anywhere
\*   alternating: the quarter shown flips between `first` and `second`
\*                every `period`; any number the model writes after
\*                "QUARTER:" is taken as the quarter
\*   linear:      four contiguous quarters from `base`, `ratio`/10 video
\*                seconds per game second, the clock showing whole seconds;
\*                no clock inside the intervals of `hidden`
read_game_clock(t) ==
    CASE oracle.kind = "blind" -> None
      [] oracle.kind = "alternating" ->
            Some(ClockOf(IF (t \div oracle.period) % 2 = 0 THEN oracle.first ELSE oracle.second,
                         oracle.shown))
      [] oracle.kind = "linear" ->
            IF \E i \in 1..Len(oracle.hidden) : InInterval(t, oracle.hidden[i])
            THEN None
            ELSE LET g == FloorDiv((t - oracle.base) * 10, oracle.ratio * Unit)
                 IN  IF t < oracle.base THEN Some(ClockOf(1, 900))
                     ELSE IF g >= 3600 THEN Some(ClockOf(4, 0))
                     ELSE Some(ClockOf(g \div 900 + 1, 900 - (g % 900)))

\* extract_frame then read_game_clock: frame int(t * fps) exists only below
\* total_frames, i.e. for t < duration; a failed read raises and is caught
\* by read_clock_at, which goes on as after a miss
FrameClock(t) == IF t < duration THEN read_game_clock(t) ELSE None

----------------------------------------------------------------------------
(* Clock Reading Adapter: VideoIndexer.read_clock_at *)

\* offsets = [0] + [i*step, -i*step for i in 1..retries-1]
RetryOffsets(retries, step) ==
    [i \in 1..(2 * Max2(retries, 1) - 1) |->
        IF i = 1 THEN 0
        ELSE IF i % 2 = 0 THEN (i \div 2) * step ELSE 0 - (i \div 2) * step]

\* the bounds test of read_clock_at dropped
InVideoAlways(t) == TRUE

\* try_time < 0 or try_time > self.duration: continue
InVideo(t) == ~(t < 0 \/ t > duration)

\* the for loop of read_clock_at over offsets[i..]; log collects the offsets
\* at which a frame was extracted
RECURSIVE ReadLoop(_, _, _, _)
ReadLoop(vod, offs, i, log) ==
    IF i > Len(offs) THEN [clock |-> None, log |-> log, at |-> None]
    ELSE LET try_time == vod + offs[i]
         IN  IF ~InVideo(try_time) THEN ReadLoop(vod, offs, i + 1, log)
             ELSE LET clock == FrameClock(try_time)
                  IN  IF clock # None
                      THEN [clock |-> clock, log |-> Append(log, try_time),
                            at |-> Some(try_time)]
                      ELSE ReadLoop(vod, offs, i + 1, Append(log, try_time))

read_clock_at(vod, retries, step) == ReadLoop(vod, RetryOffsets(retries, step), 1, <<>>)

----------------------------------------------------------------------------
(* Adaptive Timestamp Search: VideoIndexer.find_exact_time *)

MaxIterations == 15
InitialRatioTenths == 15
JumpRatioTenths == 13
QuarterRatioTenths == 12
QuarterJump == 2000
DeadZoneMargin == 5
MissStep == 30
DampingJump == 100
ConvergeSpan == 15
RelaxedDiff == 2
RetryStep == 2
QuarterSeconds == 900

\* game seconds times a ratio given in tenths, as video offset
Scaled(game_secs, tenths) == game_secs * tenths * (Unit \div 10)

\* [10, -10, 20, -20]
ProbeOffsets == <<Sec(10), 0 - Sec(10), Sec(20), 0 - Sec(20)>>

\* the zone_end of the first dead zone that holds vod
ZoneEndAt(zones, vod) ==
    LET i == CHOOSE i \in 1..Len(zones) :
                /\ InInterval(vod, zones[i])
                /\ \A j \in 1..(i - 1) : ~InInterval(vod, zones[j])
    IN  zones[i][2]

\* the "Skip known dead zones" step
SkipDeadZone(zones, pos) ==
    IF is_in_dead_zone(zones, pos) THEN ZoneEndAt(zones, pos) + Sec(DeadZoneMargin) ELSE pos

\* the "Try nearby" loop after a miss at pos
RECURSIVE ProbeLoop(_, _, _)
ProbeLoop(pos, i, log) ==
    IF i > Len(ProbeOffsets) THEN [clock |-> None, pos |-> pos, log |-> log]
    ELSE LET alt == pos + ProbeOffsets[i]
         IN  IF 0 <= alt /\ alt <= duration
             THEN LET r == read_clock_at(alt, 1, Sec(RetryStep))
                  IN  IF r.clock # None
                      THEN [clock |-> r.clock, pos |-> alt, log |-> log \o r.log]
                      ELSE ProbeLoop(pos, i + 1, log \o r.log)
             ELSE ProbeLoop(pos, i + 1, log)

\* the initial current_pos, with the quarter start of the index when it is
\* truthy, the window midpoint otherwise
InitialPos(quarter_start, target_total, search_start, search_end) ==
    IF Truthy(quarter_start)
    THEN Max2(search_start, Min2(search_end,
            quarter_start[1] + Scaled(QuarterSeconds - target_total, InitialRatioTenths)))
    ELSE FloorDiv(search_start + search_end, 2)

\* the (v, g) of the session readings taken in the target quarter
SameQuarter(readings, tq) ==
    SelectSeq(readings, LAMBDA r : r[2] = tq)

\* the SMART JUMP: next_pos from the reading just taken at pos
JumpFrom(pos, clock, tq, target_total) ==
    IF clock.quarter = tq
    THEN pos + Scaled(total_seconds(clock) - target_total, JumpRatioTenths)
    ELSE IF clock.quarter < tq
    THEN pos + Sec((tq - clock.quarter) * QuarterJump)
             + Scaled(QuarterSeconds - target_total, QuarterRatioTenths)
    ELSE pos - Sec((clock.quarter - tq) * QuarterJump)
             - Scaled(target_total, QuarterRatioTenths)

\* the refinement from the two most recent same-quarter readings
Secant(next_pos, same, target_total) ==
    IF Len(same) >= 2
    THEN LET r1 == same[Len(same) - 1]
             r2 == same[Len(same)]
             vod_diff == r2[1] - r1[1]
             game_diff == r1[3] - r2[3]
         IN  IF game_diff # 0
             THEN r2[1] + FloorDiv((r2[3] - target_total) * vod_diff, game_diff)
             ELSE next_pos
    ELSE next_pos

\* "Don't oscillate": halve a jump of more than 100 s once a best match exists
Damped(pos, next_pos, best_match) ==
    IF Truthy(best_match) /\ Abs(next_pos - pos) > Sec(DampingJump)
    THEN pos + FloorDiv(next_pos - pos, 2)
    ELSE next_pos

SeqMax(xs) == CHOOSE x \in {xs[i] : i \in 1..Len(xs)} : \A i \in 1..Len(xs) : xs[i] <= x
SeqMin(xs) == CHOOSE x \in {xs[i] : i \in 1..Len(xs)} : \A i \in 1..Len(xs) : x <= xs[i]

\* the stuck / converged test on the last four readings: TRUE to break
Stalled(readings) ==
    /\ Len(readings) >= 4
    /\ LET last == [i \in 1..4 |-> readings[Len(readings) - 4 + i][1]]
           unique == {RoundTo(last[i], Unit) : i \in 1..4}
       IN  \/ Cardinality(unique) >= 3 /\ SeqMax(last) - SeqMin(last) < Sec(ConvergeSpan)
           \/ Cardinality(unique) = 1

\* the return after the loop
ClosestMatch(best_match, best_diff) ==
    IF Truthy(best_match) /\ best_diff # None /\ best_diff[1] <= RelaxedDiff
    THEN best_match ELSE None

\* add_known_frame: the key is str(round(vod_seconds, 1))
FrameKey(vod) == RoundTo(vod, Unit \div 10)

add_known_frame(frames, vod, quarter, game_time) ==
    DictSet(frames, FrameKey(vod), [quarter |-> quarter, time |-> game_time])

\* what save() writes
\* json.dump writes the integer keys of quarters as strings
QuarterKeys == [n \in 0..9 |-> <<"0", "1", "2", "3", "4", "5", "6", "7", "8", "9">>[n + 1]]

JsonKeys(q) ==
    [k \in {QuarterKeys[n] : n \in DOMAIN q} |->
        q[CHOOSE n \in DOMAIN q : QuarterKeys[n] = k]]

\* {int(k): v for k, v in data["quarters"].items()}
IntKeys(d) ==
    [n \in {i \in DOMAIN QuarterKeys : QuarterKeys[i] \in DOMAIN d} |-> d[QuarterKeys[n]]]

\* the JSON record save writes
Snapshot(q, m, k, d) == Some([quarters |-> JsonKeys(q), mappings |-> m, known_frames |-> k,
                              dead_zones |-> d])

\* iterations += 1, at the top of every pass
CountPass(n) == n + 1

\* the return after the loop, on the session as the loop left it
Finish(s) == [s EXCEPT !.pc = "done", !.result = ClosestMatch(s.best_match, s.best_diff)]

\* back to the loop test: another pass, or the loop is over
LoopTest(s) == IF s.iterations < MaxIterations THEN s ELSE Finish(s)

\* What one pass of the loop leaves: the session (pc "loop" to go on, "done"
\* once find_exact_time has returned, its return value in result), the
\* known_frames, the oracle calls of the pass, whether the index was saved.
Pass(s, frames, log) == [s |-> s, frames |-> frames, log |-> log, saved |-> s.pc = "done"]

\* the reading of the pass: read_clock_at(current_pos, retries=2), then the
\* nearby probes after a miss
Locate(p1, r1) ==
    IF r1.clock = None THEN ProbeLoop(p1, 1, r1.log)
    ELSE [clock |-> r1.clock, pos |-> p1, log |-> r1.log]

\* a miss that does not count as a pass of the loop
MissedUncounted(s, p1, log) ==
    Pass(LoopTest([s EXCEPT !.pos = p1 + Sec(MissStep)]), known_frames, log)

\* no clock here nor nearby: current_pos += 30; continue
Missed(s, p1, log) ==
    Pass(LoopTest([s EXCEPT !.iterations = CountPass(@), !.pos = p1 + Sec(MissStep)]),
         known_frames, log)

\* the end of a pass with a reading: return on a match within tolerance,
\* break when stalled, else move to the next position
Advance(t, clock, frames, log) ==
    LET tt == target_total_of(t.target_time)
        same == SameQuarter(t.readings, t.target_quarter)
    IN  IF clock.quarter = t.target_quarter
           /\ Abs(total_seconds(clock) - tt) <= t.tolerance
        THEN Pass([t EXCEPT !.pc = "done", !.result = Some(t.pos)], frames, log)
        ELSE IF Stalled(t.readings)
        THEN Pass(Finish(t), frames, log)
        ELSE Pass(LoopTest([t EXCEPT !.pos =
                    Damped(t.pos,
                           Secant(JumpFrom(t.pos, clock, t.target_quarter, tt), same, tt),
                           t.best_match)]),
                  frames, log)

\* a pass that read `clock` at pos: record the reading, keep the best match
Scored(s, clock, pos, log) ==
    LET diff == Abs(total_seconds(clock) - target_total_of(s.target_time))
        better == /\ clock.quarter = s.target_quarter
                  /\ (s.best_diff = None \/ diff < s.best_diff[1])
    IN  Advance([s EXCEPT !.iterations = CountPass(@),
                          !.readings = Append(@, <<pos, clock.quarter, total_seconds(clock)>>),
                          !.best_match = IF better THEN Some(pos) ELSE @,
                          !.best_diff = IF better THEN Some(diff) ELSE @,
                          !.pos = pos],
                clock,
                add_known_frame(known_frames, pos, clock.quarter, time_str(clock)),
                log)

AfterRead(s, p1, pr) ==
    IF pr.clock = None THEN Missed(s, p1, pr.log)
    ELSE Scored(s, pr.clock[1], pr.pos, pr.log)

\* the position of the pass: clamped into the video, past a known dead zone
PassPos(s) == SkipDeadZone(dead_zones, Max2(0, Min2(duration, s.pos)))

\* one pass of the while loop on session s
Iteration(s) ==
    AfterRead(s, PassPos(s), Locate(PassPos(s), read_clock_at(PassPos(s), 2, Sec(RetryStep))))

NoSearch == [pc |-> "idle"]

\* the session find_exact_time starts with
NewSession(tq, game_time, search_start, search_end, tol, caller) ==
    [pc |-> "loop", caller |-> caller,
     target_quarter |-> tq, target_time |-> game_time,
     search_start |-> search_start, search_end |-> search_end, tolerance |-> tol,
     pos |-> InitialPos(IF tq \in DOMAIN quarters THEN Some(quarters[tq]) ELSE None,
                        target_total_of(game_time), search_start, search_end),
     readings |-> <<>>, best_match |-> None, best_diff |-> None,
     iterations |-> 0, result |-> None]

\* one pass of the loop of the running search
SearchIterate ==
    /\ search.pc = "loop"
    /\ search.iterations < MaxIterations
    /\ LET out == Iteration(search)
       IN  /\ search' = out.s
           /\ known_frames' = out.frames
           /\ calls' = calls \o out.log
           /\ disk' = IF out.saved
                      THEN Snapshot(quarters, mappings, out.frames, dead_zones)
                      ELSE disk
    /\ UNCHANGED <<duration, oracle, quarters, mappings, dead_zones, task>>

----------------------------------------------------------------------------
(* Operations on one VideoIndexer.  task.op names the running operation    *)
(* ("idle" between two); task.history lists the finished ones, each with   *)
(* its arguments, its outcome and the number of oracle calls it made.      *)

MaxOps == 2

Idle(history) == [op |-> "idle", history |-> history]

Returned(v) == [kind |-> "returned", value |-> v]
Raised(e) == [kind |-> "raised", value |-> e]

CanStart == task.op = "idle" /\ Len(task.history) < MaxOps

save ==
    disk' = Snapshot(quarters', mappings', known_frames', dead_zones')

\* read_clock_at called on its own
ReadClockAt(vod, retries, step) ==
    /\ CanStart
    /\ LET r == read_clock_at(vod, retries, step)
       IN  /\ calls' = r.log
           /\ task' = Idle(Append(task.history,
                  [op |-> "read_clock_at", vod |-> vod, retries |-> retries,
                   step |-> step, outcome |-> Returned(r.clock), at |-> r.at,
                   calls |-> r.log]))
    /\ UNCHANGED <<duration, oracle, quarters, mappings, known_frames, dead_zones,
                   disk, search>>

\* find_exact_time called on its own: the call, then SearchIterate
FindExactTime(tq, game_time, search_start, search_end, tol) ==
    /\ CanStart
    /\ search' = NewSession(tq, game_time, search_start, search_end, tol, "caller")
    /\ calls' = <<>>
    /\ task' = [op |-> "find_exact_time", history |-> task.history]
    /\ UNCHANGED <<duration, oracle, quarters, mappings, known_frames, dead_zones, disk>>

\* ... and its return to the caller
FindExactTimeReturn ==
    /\ task.op = "find_exact_time"
    /\ search.pc = "done"
    /\ task' = Idle(Append(task.history,
           [op |-> "find_exact_time", session |-> search,
            outcome |-> Returned(search.result), calls |-> calls]))
    /\ search' = NoSearch
    /\ UNCHANGED <<duration, oracle, quarters, mappings, known_frames, dead_zones,
                   disk, calls>>

\* the range taken to end at the start of quarter + 1 only
get_quarter_range_adjacent(quarter) ==
    IF quarter \notin DOMAIN quarters THEN None
    ELSE IF quarter + 1 \in DOMAIN quarters
    THEN Some(<<quarters[quarter], quarters[quarter + 1]>>)
    ELSE Some(<<quarters[quarter], quarters[quarter] + Sec(2700)>>)

\* VideoIndex.get_quarter_range
get_quarter_range(quarter) ==
    IF quarter \notin DOMAIN quarters THEN None
    ELSE LET start == quarters[quarter]
             later == {q \in DOMAIN quarters : q > quarter}
         IN  IF later # {}
             THEN Some(<<start, quarters[CHOOSE q \in later : \A r \in later : q <= r]>>)
             ELSE Some(<<start, start + Sec(2700)>>)

\* get_mapping always missing: the cache is never consulted
get_mapping_never(quarter, game_time) == None

\* VideoIndex.get_mapping
get_mapping(quarter, game_time) ==
    IF <<quarter, game_time>> \in DOMAIN mappings
    THEN Some(mappings[<<quarter, game_time>>]) ELSE None

\* find_vod_timestamp up to its search: a raise, a cache hit, or "search"
FindVodStart(quarter, game_time) ==
    IF ~is_indexed THEN Raised("ValueError: no index")
    ELSE IF get_quarter_range(quarter) = None THEN Raised("ValueError: quarter not in index")
    ELSE IF Truthy(get_mapping(quarter, game_time))
    THEN Returned(get_mapping(quarter, game_time)[1])
    ELSE [kind |-> "search"]

\* find_vod_timestamp after its search returned vod_timestamp
FindVodEnd(vod_timestamp) ==
    IF Truthy(vod_timestamp) THEN Returned(vod_timestamp[1])
    ELSE Raised("RuntimeError: could not find")

FindVodRecord(quarter, game_time, outcome, log) ==
    [op |-> "find_vod_timestamp", quarter |-> quarter, time |-> game_time,
     outcome |-> outcome, calls |-> log]

\* find_vod_timestamp: the call
FindVodTimestamp(quarter, game_time) ==
    /\ CanStart
    /\ calls' = <<>>
    /\ LET st == FindVodStart(quarter, game_time)
       IN  IF st.kind = "search"
           THEN LET range == get_quarter_range(quarter)[1]
                IN  /\ search' = NewSession(quarter, game_time, range[1], range[2], 1,
                                            "find_vod_timestamp")
                    /\ task' = [op |-> "find_vod_timestamp", history |-> task.history]
           ELSE /\ search' = NoSearch
                /\ task' = Idle(Append(task.history,
                                       FindVodRecord(quarter, game_time, st, <<>>)))
    /\ UNCHANGED <<duration, oracle, quarters, mappings, known_frames, dead_zones, disk>>

\* find_vod_timestamp: after the search, set_mapping (which saves) and return,
\* or raise
FindVodTimestampReturn ==
    /\ task.op = "find_vod_timestamp"
    /\ search.pc = "done"
    /\ LET out == FindVodEnd(search.result)
       IN  /\ task' = Idle(Append(task.history,
                  FindVodRecord(search.target_quarter, search.target_time, out, calls)))
           /\ IF out.kind = "returned"
              THEN /\ mappings' = DictSet(mappings,
                          <<search.target_quarter, search.target_time>>, out.value)
                   /\ UNCHANGED <<quarters, known_frames, dead_zones>>
                   /\ save
              ELSE UNCHANGED <<quarters, mappings, known_frames, dead_zones, disk>>
    /\ search' = NoSearch
    /\ UNCHANGED <<duration, oracle, calls>>

----------------------------------------------------------------------------
(* Quarter Boundary Discovery: VideoIndexer.auto_index *)

SampleInterval == 300

\* Phase 1, the coarse scan: t = 0; while t < duration: read_clock_at(t, 2)
RECURSIVE SweepLoop(_, _, _, _)
SweepLoop(t, interval, samples, log) ==
    IF ~(t < duration) THEN [samples |-> samples, log |-> log]
    ELSE LET r == read_clock_at(t, 2, Sec(RetryStep))
         IN  SweepLoop(t + interval, interval, Append(samples, <<t, r.clock>>),
                       log \o r.log)

\* Phase 2: the quarters seen and, for each, the offset of the first sample
\* among those with the largest total_seconds
RoughStarts(samples) ==
    LET seen == {i \in 1..Len(samples) : samples[i][2] # None}
        qs   == {samples[i][2][1].quarter : i \in seen}
        of(q) == {i \in seen : samples[i][2][1].quarter = q}
        top(q) == CHOOSE i \in of(q) :
                    \A j \in of(q) :
                        \/ total_seconds(samples[j][2][1]) < total_seconds(samples[i][2][1])
                        \/ /\ total_seconds(samples[j][2][1]) = total_seconds(samples[i][2][1])
                           /\ i <= j
    IN  [q \in qs |-> samples[top(q)][1]]

\* sorted(keys) without the quarters above 5
RECURSIVE SortedSeq(_)
SortedSeq(S) ==
    IF S = {} THEN <<>>
    ELSE LET m == CHOOSE x \in S : \A y \in S : x <= y
         IN  <<m>> \o SortedSeq(S \ {m})

RefineOrder(rough) == SortedSeq({q \in DOMAIN rough : ~(q > 5)})

\* auto_index is running, called on its own or by get_clips
InAutoIndex ==
    \/ task.op = "auto_index"
    \/ task.op = "get_clips" /\ task.phase = "auto_index"

\* auto_index: phases 1 and 2
AutoIndex ==
    /\ CanStart
    /\ LET sw == SweepLoop(0, Sec(SampleInterval), <<>>, <<>>)
           rough == RoughStarts(sw.samples)
       IN  /\ calls' = sw.log
           /\ task' = [op |-> "auto_index", history |-> task.history,
                       samples |-> sw.samples, rough |-> rough,
                       todo |-> RefineOrder(rough), index |-> quarters]
    /\ search' = NoSearch
    /\ UNCHANGED <<duration, oracle, quarters, mappings, known_frames, dead_zones, disk>>

\* Phase 3, for the next quarter: the search for 15:00 around its rough start
AutoIndexRefine ==
    /\ InAutoIndex
    /\ search.pc = "idle"
    /\ task.todo # <<>>
    /\ LET q == Head(task.todo)
           rough_start == task.rough[q]
       IN  search' = NewSession(q, <<15, 0>>,
                        Max2(0, rough_start - Sec(SampleInterval) - Sec(60)),
                        rough_start + Sec(60), 1, "auto_index")
    /\ UNCHANGED <<duration, oracle, quarters, mappings, known_frames, dead_zones,
                   disk, calls, task>>

\* Phase 3: set_quarter_start with what the search returned, or the rough start
AutoIndexStore ==
    /\ InAutoIndex
    /\ search.pc = "done"
    /\ LET q == Head(task.todo)
       IN  quarters' = DictSet(quarters, q,
                          IF Truthy(search.result) THEN search.result[1] ELSE task.rough[q])
    /\ task' = [task EXCEPT !.todo = Tail(@)]
    /\ search' = NoSearch
    /\ UNCHANGED <<duration, oracle, mappings, known_frames, dead_zones, disk, calls>>

\* the save that ends auto_index, and the return to its caller
AutoIndexReturn ==
    /\ InAutoIndex
    /\ search.pc = "idle"
    /\ task.todo = <<>>
    /\ task' = IF task.op = "get_clips"
               THEN [task EXCEPT !.phase = "resolve"]
               ELSE Idle(Append(task.history,
                        [op |-> "auto_index", samples |-> task.samples,
                         rough |-> task.rough, outcome |-> Returned(None),
                         calls |-> calls]))
    /\ UNCHANGED <<quarters, mappings, known_frames, dead_zones>>
    /\ save
    /\ UNCHANGED <<duration, oracle, search, calls>>

----------------------------------------------------------------------------
(* The indexer on a set of videos, oracles and indexes *)

Blind == [kind |-> "blind"]
Alternating == [kind |-> "alternating", period |-> Sec(60), shown |-> 450,
                first |-> 1, second |-> 3]

\* an oracle that reads quarter numbers no game has
Misread == [Alternating EXCEPT !.first = 0, !.second = 6]
Linear(base, hidden) == [kind |-> "linear", base |-> base, ratio |-> JumpRatioTenths,
                         hidden |-> hidden]

\* the linear oracle at the ratio of the initial guess
LinearInitial == [Linear(0, <<>>) EXCEPT !.ratio = InitialRatioTenths]

\* its quarter starts: 1350 s of video per quarter
InitialStarts == [q \in 1..4 |-> Scaled((q - 1) * QuarterSeconds, InitialRatioTenths)]

\* the quarter starts of Linear(0, ...): 1170 s of video per quarter
TrueStarts == [q \in 1..4 |-> Scaled((q - 1) * QuarterSeconds, JumpRatioTenths)]

Zone900 == << <<Sec(900), Sec(950)>> >>
ZoneAtEnd == << <<Sec(4900), Sec(4996)>> >>

Env(o, q, z) == [duration |-> Sec(5000), oracle |-> o, quarters |-> q, dead_zones |-> z]

\* Each index is one that set_quarter_start and add_dead_zone calls leave.
Scenarios ==
    { Env(Linear(0, <<>>), TrueStarts, <<>>),
      Env(Linear(0, <<>>), EmptyDict, Zone900),
      Env(Linear(0, <<>>), [q \in {2} |-> Sec(1500)], <<>>),
      Env(Linear(0, <<>>), TrueStarts, ZoneAtEnd),
      Env(Linear(0, << <<Sec(1185), Sec(1186)>> >>), TrueStarts, <<>>),
      Env(Linear(Sec(90), <<>>), EmptyDict, <<>>),
      Env(LinearInitial, InitialStarts, <<>>),
      Env(Linear(0, <<>>), [q \in {1, 3} |-> TrueStarts[q]], <<>>),
      Env(Blind, EmptyDict, Zone900),
      Env(Alternating, TrueStarts, <<>>),
      Env(Misread, EmptyDict, <<>>) }

Init ==
    /\ \E e \in Scenarios :
          /\ duration = e.duration
          /\ oracle = e.oracle
          /\ quarters = e.quarters
          /\ dead_zones = e.dead_zones
          /\ disk = IF e.quarters = EmptyDict /\ e.dead_zones = <<>> THEN None
                    ELSE Snapshot(e.quarters, EmptyDict, EmptyDict, e.dead_zones)
    /\ mappings = EmptyDict
    /\ known_frames = EmptyDict
    /\ search = NoSearch
    /\ calls = <<>>
    /\ task = Idle(<<>>)

\* <<vod_seconds, retries>>
ReadArgs == {0, Sec(1), Sec(955), Sec(4999)} \X {1, 2, 3}

\* <<target_quarter, target_time, search_start, search_end, tolerance>>
SearchArgs ==
    { <<1, <<2, 34>>, Sec(800), Sec(1100), 1>>,
      <<2, <<8, 34>>, Sec(1500), Sec(4200), 1>>,
      <<2, <<1, 10>>, Sec(1170), Sec(2340), 1>>,
      <<2, <<14, 50>>, Sec(1170), Sec(2340), 1>>,
      <<2, <<14, 49>>, Sec(1170), Sec(2340), 1>>,
      <<2, <<14, 49>>, Sec(1170), Sec(2340), 0>>,
      <<4, <<0, 30>>, Sec(4600), Sec(5000), 1>>,
      <<4, <<1, 0>>, Sec(4900), Sec(4990), 1>>,
      <<1, <<0, 1>>, 0, Sec(1350), 1>>,
      <<3, <<7, 28>>, Sec(2340), Sec(3510), 0>>,
      <<3, <<7, 34>>, Sec(2340), Sec(3510), 3>> }

\* <<quarter, game_time>>
Targets == {1, 2, 4} \X {<<8, 34>>, <<1, 10>>, <<15, 0>>}

Next ==
    \/ \E a \in ReadArgs : ReadClockAt(a[1], a[2], Sec(RetryStep))
    \/ \E a \in SearchArgs : FindExactTime(a[1], a[2], a[3], a[4], a[5])
    \/ SearchIterate
    \/ FindExactTimeReturn
    \/ \E a \in Targets : FindVodTimestamp(a[1], a[2])
    \/ FindVodTimestampReturn
    \/ AutoIndex
    \/ AutoIndexRefine
    \/ AutoIndexStore
    \/ AutoIndexReturn

Spec == Init /\ [][Next]_vars

----------------------------------------------------------------------------
(* Properties of the indexer *)

History == task.history
Ops(name) == {i \in 1..Len(History) : History[i].op = name}

\* the running operation is one call of find_exact_time, `calls` its oracle calls
InSearchCall ==
    /\ task.op \in {"find_exact_time", "find_vod_timestamp"}
    /\ search.pc # "idle"

\* C1: once find_vod_timestamp has returned an offset for a target, a later
\* call for the same target makes no oracle call (it never gets to search)
\* and returns the same offset.
C1_Idempotent ==
    /\ \A i \in Ops("find_vod_timestamp") : \A j \in Ops("find_vod_timestamp") :
          ( /\ i < j
            /\ History[i].outcome.kind = "returned"
            /\ History[i].quarter = History[j].quarter
            /\ History[i].time = History[j].time )
          => /\ History[j].calls = <<>>
             /\ History[j].outcome = History[i].outcome
    /\ task.op = "find_vod_timestamp" =>
          ~ \E i \in Ops("find_vod_timestamp") :
                /\ History[i].outcome.kind = "returned"
                /\ History[i].quarter = search.target_quarter
                /\ History[i].time = search.target_time

\* a target resolved by a search, then asked for again
C1_Witness ==
    /\ Len(History) = 2
    /\ History[1].op = "find_vod_timestamp" /\ History[2].op = "find_vod_timestamp"
    /\ History[1].outcome.kind = "returned"
    /\ History[1].calls # <<>>
    /\ History[1].quarter = History[2].quarter
    /\ History[1].time = History[2].time
    /\ History[2].outcome.kind = "returned"

\* C2: no oracle call of a find_exact_time call is at an offset inside a
\* dead zone known to the index.
C2_NoCallInDeadZone ==
    InSearchCall => \A i \in 1..Len(calls) : ~is_in_dead_zone(dead_zones, calls[i])

\* the offset at which the target (q, total) shows under a linear oracle
TrueOffset(q, total) ==
    oracle.base + Scaled((q - 1) * QuarterSeconds + (QuarterSeconds - total), oracle.ratio)

\* C4: with a linear, always readable oracle of the search's ratio (that of
\* its initial guess or that of its in-search estimate) and the
\* target's true offset inside the window and the video, find_exact_time
\* returns, within max_iterations passes, an offset whose reading is in the
\* target quarter and within tolerance of the target.
C4_Converges ==
    ( /\ InSearchCall
      /\ search.pc = "done"
      /\ oracle.kind = "linear" /\ oracle.hidden = <<>>
      /\ oracle.ratio \in {JumpRatioTenths, InitialRatioTenths}
      /\ LET at == TrueOffset(search.target_quarter, target_total_of(search.target_time))
         IN  search.search_start <= at /\ at <= search.search_end /\ at < duration )
    => /\ search.iterations <= MaxIterations
       /\ search.result # None
       /\ FrameClock(search.result[1]) # None
       /\ FrameClock(search.result[1])[1].quarter = search.target_quarter
       /\ Abs(total_seconds(FrameClock(search.result[1])[1])
              - target_total_of(search.target_time)) <= search.tolerance

\* C5: a find_exact_time call makes at most max_iterations passes, a pass
\* without a reading counting as one, and has returned (an offset or
\* not-found) once it has made them; each pass makes at most 7 oracle calls.
C5_Bounded ==
    search.pc # "idle" =>
        /\ search.iterations <= MaxIterations
        /\ search.pc = "loop" => search.iterations < MaxIterations
        /\ Len(search.readings) <= search.iterations
        /\ InSearchCall => Len(calls) <= 7 * search.iterations
        /\ search.pc = "done" => (search.result = None \/ search.result[1] >= 0)

\* an oracle that never shows a clock: the search has run to the bound
C5_Witness ==
    /\ search.pc = "done"
    /\ search.iterations = MaxIterations
    /\ search.readings = <<>>
    /\ search.result = None
    /\ calls # <<>>

Clamp(x, lo, hi) == Max2(lo, Min2(hi, x))

\* C6: the first position of a find_exact_time call is, when the index
\* holds a start for the target quarter, that start plus (900 - target) at
\* the ratio of the in-search estimate, clamped into the window and the
\* video; it is the window midpoint only when the start is not known.
C6_InitialGuess ==
    (search.pc = "loop" /\ search.iterations = 0) =>
        Clamp(search.pos, 0, duration) =
            IF search.target_quarter \in DOMAIN quarters
            THEN Clamp(Clamp(quarters[search.target_quarter]
                             + Scaled(QuarterSeconds - target_total_of(search.target_time),
                                      JumpRatioTenths),
                             search.search_start, search.search_end),
                       0, duration)
            ELSE Clamp(FloorDiv(search.search_start + search.search_end, 2), 0, duration)

\* the readings the system holds, each with the offset it is stored under:
\* <<offset, quarter, remaining seconds>>
Recorded ==
    {<<k, known_frames[k].quarter, target_total_of(known_frames[k].time)>> :
        k \in DOMAIN known_frames}
    \cup (IF search.pc = "idle" THEN {}
          ELSE {search.readings[i] : i \in 1..Len(search.readings)})

\* C7: under a linear oracle, of two recorded readings of one quarter the
\* one with more remaining seconds is stored under the smaller (or the same)
\* offset.
C7_Monotone ==
    oracle.kind = "linear" =>
        \A a \in Recorded : \A b \in Recorded :
            (a[2] = b[2] /\ a[3] > b[3]) => a[1] <= b[1]

\* C8: read_clock_at tries offset, offset+step, offset-step, ... in this
\* order, makes at most `retries` attempts, returns the first reading it
\* gets and none when every attempt misses.
C8_RetryBudget ==
    \A i \in Ops("read_clock_at") :
        LET h == History[i]
            offs == RetryOffsets(h.retries, h.step)
        IN  /\ Len(h.calls) <= h.retries
            /\ \A k \in 1..Len(h.calls) : \E n \in 1..Len(offs) :
                  h.calls[k] = h.vod + offs[n]
            /\ \A k \in 1..Len(h.calls) :
                  FrameClock(h.calls[k]) # None => k = Len(h.calls)
            /\ h.outcome.value # None =>
                  /\ h.calls # <<>>
                  /\ h.outcome.value = FrameClock(h.calls[Len(h.calls)])
            /\ h.outcome.value = None =>
                  \A k \in 1..Len(h.calls) : FrameClock(h.calls[k]) = None

\* C9: no oracle call of read_clock_at, find_exact_time or auto_index is at
\* an offset below 0 or beyond the video duration.
C9_CallsInVideo ==
    /\ \A i \in 1..Len(calls) : 0 <= calls[i] /\ calls[i] <= duration
    /\ \A h \in 1..Len(History) : \A i \in 1..Len(History[h].calls) :
          0 <= History[h].calls[i] /\ History[h].calls[i] <= duration

\* a position past the end of the video (after a dead zone skip) and a retry
\* below offset 0 were both passed over
C9_Witness ==
    \/ /\ search.pc # "idle"
       /\ \E i \in 1..Len(search.readings) : search.readings[i][1] > duration
    \/ \E i \in Ops("read_clock_at") :
          /\ History[i].vod = 0 /\ History[i].retries = 2
          /\ History[i].calls = <<0, Sec(RetryStep)>>

\* C14: get_quarter_range(q) is none when q has no known start; otherwise
\* it starts at quarter_starts[q] and ends at the start of the next higher
\* known quarter, or 2700 s after its start when q is the highest known one.
\* find_vod_timestamp searches in that range.
C14_QuarterRange ==
    /\ \A q \in 1..5 :
          LET r == get_quarter_range(q)
          IN  IF q \notin DOMAIN quarters THEN r = None
              ELSE /\ r # None
                   /\ r[1][1] = quarters[q]
                   /\ \/ /\ \A n \in DOMAIN quarters : n <= q
                         /\ r[1][2] = quarters[q] + Sec(2700)
                      \/ \E n \in DOMAIN quarters :
                            /\ n > q
                            /\ \A m \in DOMAIN quarters : ~(q < m /\ m < n)
                            /\ r[1][2] = quarters[n]
    /\ (search.pc # "idle" /\ search.caller = "find_vod_timestamp") =>
          /\ search.target_quarter \in DOMAIN quarters
          /\ search.search_start = quarters[search.target_quarter]
          /\ Some(<<search.search_start, search.search_end>>)
                = get_quarter_range(search.target_quarter)

\* quarters 1 and 3 known: a resolution in quarter 1 searches up to the start
\* of quarter 3
C14_Witness ==
    /\ search.pc # "idle" /\ search.caller = "find_vod_timestamp"
    /\ DOMAIN quarters = {1, 3}
    /\ search.target_quarter = 1
    /\ search.search_end = quarters[3]

\* the readings of the search that are in the target quarter, and how far
\* the i-th is from the target
SameQuarterAt == {i \in 1..Len(search.readings) : search.readings[i][2] = search.target_quarter}

DiffAt(i) == Abs(search.readings[i][3] - target_total_of(search.target_time))

\* C18: a find_exact_time call that ends with no reading within tolerance
\* returns its best match (the first reading of the target quarter closest
\* to the target) exactly when there is one at most 2 x tolerance off, and
\* not-found otherwise.
C18_RelaxedBound ==
    ( /\ search.pc = "done"
      /\ \A i \in SameQuarterAt : DiffAt(i) > search.tolerance )
    => IF \E i \in SameQuarterAt : DiffAt(i) <= 2 * search.tolerance
       THEN /\ search.result # None
            /\ \E i \in SameQuarterAt :
                  /\ search.result[1] = search.readings[i][1]
                  /\ \A j \in SameQuarterAt : DiffAt(i) <= DiffAt(j)
       ELSE search.result = None

\* the index maps (quarter, game_time) to vod, in memory and in the record
Cached(quarter, game_time, vod) ==
    /\ <<quarter, game_time>> \in DOMAIN mappings
    /\ mappings[<<quarter, game_time>>] = vod
    /\ disk # None
    /\ <<quarter, game_time>> \in DOMAIN disk[1].mappings
    /\ disk[1].mappings[<<quarter, game_time>>] = vod

\* C19: an offset that find_exact_time has returned for a target is cached
\* as the mapping of that target, in memory and in the record, whether the
\* search was called directly, by the refinement of a quarter start or by
\* find_vod_timestamp (once that has returned).
C19_ResultCached ==
    /\ (search.pc = "done" /\ search.result # None
            /\ search.caller # "find_vod_timestamp")
          => Cached(search.target_quarter, search.target_time, search.result[1])
    /\ \A i \in Ops("find_vod_timestamp") :
          History[i].outcome.kind = "returned" =>
              Cached(History[i].quarter, History[i].time, History[i].outcome.value)

\* C20: every oracle call of a search or of auto_index that got a reading
\* (the query at the position, a retry, a probe, a sample of the sweep) has
\* left a known_frames entry under the rounded offset of that call, holding
\* that reading.
C20_ObservationsComplete ==
    task.op \in {"find_exact_time", "find_vod_timestamp", "auto_index"} =>
        \A i \in 1..Len(calls) :
            FrameClock(calls[i]) # None =>
                /\ FrameKey(calls[i]) \in DOMAIN known_frames
                /\ known_frames[FrameKey(calls[i])]
                      = [quarter |-> FrameClock(calls[i])[1].quarter,
                         time |-> time_str(FrameClock(calls[i])[1])]

\* a pass of the search loop that got a reading and computed the next
\* position from it (the reading is the last of search'.readings and the
\* next position is search'.pos)
ReadPass ==
    /\ search.pc = "loop"
    /\ search'.pc = "loop"
    /\ Len(search'.readings) = Len(search.readings) + 1

NewReading == search'.readings[Len(search'.readings)]

QuarterGap == Abs(search.target_quarter - NewReading[2])

\* C21: in every pass of find_exact_time whose reading is in a quarter other
\* than the target, the next position is later than the position of the
\* reading when the reading's quarter is lower than the target quarter and
\* earlier when it is higher, by a jump on the scale of 2000 s of video per
\* quarter of gap (at least half of it, which allows for damping).
C21_QuarterJump ==
    [][(ReadPass /\ NewReading[2] # search.target_quarter) =>
          /\ NewReading[2] < search.target_quarter =>
                search'.pos - NewReading[1] >= (QuarterGap * Sec(QuarterJump)) \div 2
          /\ NewReading[2] > search.target_quarter =>
                NewReading[1] - search'.pos >= (QuarterGap * Sec(QuarterJump)) \div 2]_vars

\* C22: in every pass of find_exact_time whose reading is in the target
\* quarter and not within tolerance, the next position (fixed ratio or
\* secant, damped or not) is greater than the position of the reading when
\* the reading has more remaining seconds than the target, and smaller when
\* it has fewer.
C22_SameQuarterSign ==
    [][(ReadPass /\ NewReading[2] = search.target_quarter) =>
          /\ NewReading[3] > target_total_of(search.target_time) =>
                search'.pos > NewReading[1]
          /\ NewReading[3] < target_total_of(search.target_time) =>
                search'.pos < NewReading[1]]_vars

\* the jump that the pass proposes from its reading, before damping
ProposedPos ==
    Secant(JumpFrom(NewReading[1], ClockOf(NewReading[2], NewReading[3]),
                    search.target_quarter, target_total_of(search.target_time)),
           SameQuarter(search'.readings, search.target_quarter),
           target_total_of(search.target_time))

\* a best match no farther than twice the tolerance from the target
CloseMatch ==
    /\ search'.best_match # None
    /\ search'.best_diff[1] <= 2 * search.tolerance

\* C23: the proposed jump of a pass is halved exactly when a best match with
\* diff at most 2 x tolerance exists and the jump exceeds 100 s; with no
\* best match, with a best match farther than 2 x tolerance, or with a jump
\* of at most 100 s, the jump is applied as proposed.
C23_Damping ==
    [][ReadPass =>
          search'.pos =
              IF CloseMatch /\ Abs(ProposedPos - NewReading[1]) > Sec(DampingJump)
              THEN NewReading[1] + FloorDiv(ProposedPos - NewReading[1], 2)
              ELSE ProposedPos]_vars

\* the last four positions read lie within 15 s and have at least three
\* distinct rounded values
Converged(readings) ==
    /\ Len(readings) >= 4
    /\ LET last == [i \in 1..4 |-> readings[Len(readings) - 4 + i][1]]
       IN  /\ Cardinality({RoundTo(last[i], Unit) : i \in 1..4}) >= 3
           /\ SeqMax(last) - SeqMin(last) < Sec(ConvergeSpan)

\* C24: a pass of find_exact_time that leaves the last four positions
\* converged, its own reading not within tolerance, ends the call with the
\* current position as the answer.
C24_ConvergedAnswer ==
    [][(/\ search.pc = "loop"
        /\ search'.pc = "done"
        /\ Len(search'.readings) = Len(search.readings) + 1
        /\ Converged(search'.readings)
        /\ ~ (/\ NewReading[2] = search.target_quarter
              /\ Abs(NewReading[3] - target_total_of(search.target_time))
                    <= search.tolerance))
          => search'.result = Some(NewReading[1])]_vars

\* the sweep samples that read quarter q
SamplesOf(q) ==
    {i \in 1..Len(task.samples) :
        task.samples[i][2] # None /\ task.samples[i][2][1].quarter = q}

\* an offset of a sample of quarter q with the largest remaining seconds
IsRoughStart(q, vod) ==
    \E i \in SamplesOf(q) :
        /\ task.samples[i][1] = vod
        /\ \A j \in SamplesOf(q) :
              total_seconds(task.samples[j][2][1]) <= total_seconds(task.samples[i][2][1])

\* C25: auto_index stores for a quarter the offset its refinement search
\* returned, or, when the search returned none, the offset of the quarter's
\* sample with the largest remaining seconds; and when it started on an empty
\* index it returns with an entry exactly for the quarters in 1..5 that a
\* sweep sample read.
C25_DiscoveryResult ==
    [][/\ (/\ task.op = "auto_index"
           /\ search.pc = "done"
           /\ task'.op = "auto_index"
           /\ task'.todo = Tail(task.todo))
             => LET q == Head(task.todo)
                IN  /\ q \in DOMAIN quarters'
                    /\ IF search.result # None
                       THEN quarters'[q] = search.result[1]
                       ELSE IsRoughStart(q, quarters'[q])
       /\ (/\ task.op = "auto_index"
           /\ task.index = EmptyDict
           /\ task'.op = "idle")
             => DOMAIN quarters' = {q \in 1..5 : SamplesOf(q) # {}}]_vars

\* C26: in every state of the index the stored quarter start offsets are
\* strictly increasing with the quarter number.
C26_StartsIncreasing ==
    \A q1, q2 \in DOMAIN quarters : q1 < q2 => quarters[q1] < quarters[q2]

\* a pass of the search loop that found no clock at its position nor at
\* the nearby probes
MissedPass ==
    /\ search.pc = "loop"
    /\ search'.pc # "idle"
    /\ search'.iterations = search.iterations + 1
    /\ Len(search'.readings) = Len(search.readings)

\* C27: a pass of a search that finds no clock at its position and at all
\* of the nearby probes leaves that position inside a dead zone of the
\* index, where a later search skips it.
C27_MissRecorded ==
    [][MissedPass => is_in_dead_zone(dead_zones', PassPos(search))]_vars

\* C28: an offset that find_exact_time returns lies within the window
\* [search_start, search_end] of the call and within [0, duration].
C28_ResultInWindow ==
    (search.pc = "done" /\ search.result # None) =>
        /\ search.search_start <= search.result[1]
        /\ search.result[1] <= search.search_end
        /\ 0 <= search.result[1]
        /\ search.result[1] <= duration

\* the search read, at video position 0, the target quarter within
\* tolerance of the target
MatchAtZero ==
    \E i \in SameQuarterAt :
        search.readings[i][1] = 0 /\ DiffAt(i) <= search.tolerance

\* C30: when the search of find_vod_timestamp got at position 0 a reading
\* of the target quarter within tolerance, find_vod_timestamp returns 0 and
\* caches the mapping to 0; it raises the could-not-find error only when no
\* reading of the search was within the relaxed bound.
C30_ZeroIsAResult ==
    [][(task.op = "find_vod_timestamp" /\ search.pc = "done" /\ task'.op = "idle") =>
          LET outcome == task'.history[Len(task'.history)].outcome
              target  == <<search.target_quarter, search.target_time>>
          IN  /\ MatchAtZero =>
                    /\ outcome = Returned(0)
                    /\ target \in DOMAIN mappings'
                    /\ mappings'[target] = 0
              /\ outcome.kind = "raised" =>
                    ~ \E i \in SameQuarterAt : DiffAt(i) <= RelaxedDiff]_vars

----------------------------------------------------------------------------
(* Clip Resolver: service.get_clips *)

PRE_PLAY_PADDING == 5
DEFAULT_CLIP_DURATION == 20
TOUCHDOWN_BONUS == 25
TURNOVER_BONUS == 15

\* dict.get(key, default) on a play_data row (a record; {} is EmptyDict)
Get(d, key, default) == IF key \in DOMAIN d THEN d[key] ELSE default

PLAY_TYPE_DURATIONS ==
    [t \in {"pass", "run", "kickoff", "punt", "field_goal", "extra_point",
            "no_play", "qb_kneel", "qb_spike"} |->
        CASE t \in {"pass", "run", "field_goal"} -> 20
          [] t \in {"kickoff", "punt"} -> 25
          [] t \in {"extra_point", "no_play"} -> 15
          [] OTHER -> 10]

\* _get_clip_duration, in seconds
get_clip_duration(play_data) ==
    LET play_type == Get(play_data, "play_type", "")
        base == IF play_type \in DOMAIN PLAY_TYPE_DURATIONS
                THEN PLAY_TYPE_DURATIONS[play_type] ELSE DEFAULT_CLIP_DURATION
    IN  base
        + (IF Get(play_data, "touchdown", FALSE) THEN TOUCHDOWN_BONUS ELSE 0)
        + (IF Get(play_data, "interception", FALSE) \/ Get(play_data, "fumble", FALSE)
           THEN TURNOVER_BONUS ELSE 0)

\* VideoIndex._load: the index a new VideoIndexer starts with
\* a load that finds nothing
LoadedNothing(field, empty) == empty

Loaded(field, empty) ==
    IF disk = None THEN empty
    ELSE IF field = "quarters" THEN IntKeys(disk[1].quarters)
    ELSE disk[1][field]

\* The body of the for loop once find_vod_timestamp has returned vod for
\* request ts; pd is the local variable of that name, None while unbound.
\* Reading it unbound raises UnboundLocalError.
ClipFor(ts, vod, pd, buffer) ==
    LET start == Max2(0, vod - Sec(PRE_PLAY_PADDING))
    IN  IF pd = None THEN Raised("UnboundLocalError: pd")
        ELSE LET row == IF ts.play_data = None THEN EmptyDict ELSE ts.play_data[1]
             IN  Returned([start_time |-> start,
                           end_time |-> start + Sec(get_clip_duration(pd[1])) + buffer,
                           quarter |-> ts.quarter, game_time |-> ts.time,
                           play_type |-> Get(row, "play_type", "None"),
                           description |-> Get(row, "desc", "None"),
                           is_touchdown |-> Get(row, "touchdown", FALSE),
                           is_interception |-> Get(row, "interception", FALSE),
                           is_fumble |-> Get(row, "fumble", FALSE),
                           pd |-> Some(row)])

GetClipsRecord(outcome) ==
    [op |-> "get_clips", batch |-> task.batch, buffer |-> task.buffer,
     clips |-> task.clips, attempted |-> task.i, discoveries |-> task.discoveries,
     loaded |-> task.loaded,
     outcome |-> outcome, calls |-> calls]

\* the test of the scan dropped: get_clips never runs auto_index
NeedsDiscoveryNever(q) == FALSE

\* if not indexer.index.is_indexed, on the quarter starts just loaded
NeedsDiscovery(q) == ~(Cardinality(DOMAIN q) > 0)

\* get_clips: a new VideoIndexer (the index as persisted), and auto_index's
\* scan first when it holds no quarter start
GetClips(batch, buffer) ==
    /\ CanStart
    /\ quarters' = Loaded("quarters", EmptyDict)
    /\ mappings' = Loaded("mappings", EmptyDict)
    /\ known_frames' = Loaded("known_frames", EmptyDict)
    /\ dead_zones' = Loaded("dead_zones", <<>>)
    /\ search' = NoSearch
    /\ LET run == [op |-> "get_clips", history |-> task.history, batch |-> batch,
                   buffer |-> buffer, i |-> 0, clips |-> <<>>, pd |-> None,
                   loaded |-> Loaded("quarters", EmptyDict)]
       IN  IF NeedsDiscovery(Loaded("quarters", EmptyDict))
           THEN LET sw == SweepLoop(0, Sec(SampleInterval), <<>>, <<>>)
                    rough == RoughStarts(sw.samples)
                IN  /\ calls' = sw.log
                    /\ task' = run @@ [phase |-> "auto_index", discoveries |-> 1,
                                       samples |-> sw.samples, rough |-> rough,
                                       todo |-> RefineOrder(rough)]
           ELSE /\ calls' = <<>>
                /\ task' = run @@ [phase |-> "resolve", discoveries |-> 0,
                                   samples |-> <<>>, rough |-> EmptyDict, todo |-> <<>>]
    /\ UNCHANGED <<duration, oracle, disk>>

\* get_clips raises: the exception leaves the for loop and the function
Abort(error, i) ==
    task' = Idle(Append(task.history, [GetClipsRecord(error) EXCEPT !.attempted = i]))

\* the rest of the loop body for request i, resolved to vod
Emit(i, vod) ==
    LET out == ClipFor(task.batch[i], vod, task.pd, task.buffer)
    IN  IF out.kind = "raised" THEN Abort(out, i)
        ELSE task' = [task EXCEPT !.i = i, !.pd = out.value.pd,
                                  !.clips = Append(@, out.value)]

\* the next request: find_vod_timestamp up to its search
ClipResolve ==
    /\ task.op = "get_clips" /\ task.phase = "resolve"
    /\ search.pc = "idle"
    /\ task.i < Len(task.batch)
    /\ LET i == task.i + 1
           ts == task.batch[i]
           st == FindVodStart(ts.quarter, ts.time)
       IN  CASE st.kind = "search" ->
                  /\ search' = NewSession(ts.quarter, ts.time,
                                   get_quarter_range(ts.quarter)[1][1],
                                   get_quarter_range(ts.quarter)[1][2], 1,
                                   "find_vod_timestamp")
                  /\ task' = [task EXCEPT !.i = i]
             [] st.kind = "raised" -> Abort(st, i) /\ UNCHANGED search
             [] st.kind = "returned" -> Emit(i, st.value) /\ UNCHANGED search
    /\ UNCHANGED <<duration, oracle, quarters, mappings, known_frames, dead_zones,
                   disk, calls>>

\* the search of request i is over: set_mapping and the clip, or the raise
ClipResolved ==
    /\ task.op = "get_clips" /\ task.phase = "resolve"
    /\ search.pc = "done"
    /\ LET out == FindVodEnd(search.result)
       IN  IF out.kind = "returned"
           THEN /\ mappings' = DictSet(mappings,
                       <<search.target_quarter, search.target_time>>, out.value)
                /\ UNCHANGED <<quarters, known_frames, dead_zones>>
                /\ save
                /\ Emit(task.i, out.value)
           ELSE /\ Abort(out, task.i)
                /\ UNCHANGED <<quarters, mappings, known_frames, dead_zones, disk>>
    /\ search' = NoSearch
    /\ UNCHANGED <<duration, oracle, calls>>

\* return clips
GetClipsReturn ==
    /\ task.op = "get_clips" /\ task.phase = "resolve"
    /\ search.pc = "idle"
    /\ task.i = Len(task.batch)
    /\ task' = Idle(Append(task.history, GetClipsRecord(Returned(task.clips))))
    /\ UNCHANGED <<duration, oracle, quarters, mappings, known_frames, dead_zones,
                   disk, search, calls>>

MaxBatch == 2

Row(play_type, touchdown) == Some([play_type |-> play_type, touchdown |-> touchdown])

Request(q, t, row) == [quarter |-> q, time |-> t, play_data |-> row]

Requests ==
    { Request(2, <<14, 50>>, Row("pass", TRUE)),
      Request(2, <<1, 10>>, None),
      Request(3, <<8, 34>>, Row("qb_kneel", FALSE)),
      Request(1, <<15, 0>>, None) }

Batches == UNION {[1..n -> Requests] : n \in 0..MaxBatch}

\* what an earlier process had in memory, and saved, before get_clips
Stored ==
    { [quarters |-> EmptyDict, dead_zones |-> <<>>],
      [quarters |-> TrueStarts, dead_zones |-> <<>>],
      [quarters |-> [q \in 1..2 |-> TrueStarts[q]], dead_zones |-> <<>>],
      [quarters |-> TrueStarts, dead_zones |-> Zone900] }

InitClips ==
    /\ duration = Sec(5000)
    /\ oracle \in {Linear(0, <<>>), Blind}
    /\ \E e \in Stored :
          /\ quarters = e.quarters
          /\ dead_zones = e.dead_zones
          /\ disk = IF e.quarters = EmptyDict /\ e.dead_zones = <<>> THEN None
                    ELSE Snapshot(e.quarters, EmptyDict, EmptyDict, e.dead_zones)
    /\ mappings = EmptyDict
    /\ known_frames = EmptyDict
    /\ search = NoSearch
    /\ calls = <<>>
    /\ task = Idle(<<>>)

NextClips ==
    \/ \E b \in Batches : GetClips(b, Sec(15))
    \/ AutoIndexRefine
    \/ AutoIndexStore
    \/ AutoIndexReturn
    \/ SearchIterate
    \/ ClipResolve
    \/ ClipResolved
    \/ GetClipsReturn

SpecClips == InitClips /\ [][NextClips]_vars

\* the request get_clips was resolving when it raised a resolution failure
\* (search exhausted, quarter not in the index, no index), 0 when none
FailedRequest(h) ==
    IF h.outcome.kind = "raised" /\ h.outcome.value # "UnboundLocalError: pd"
    THEN h.attempted ELSE 0

\* C10: when the resolution of one request of a get_clips batch fails, the
\* batch is not aborted: get_clips still returns, having gone through every
\* request of the batch.
C10_BatchIsolation ==
    \A i \in Ops("get_clips") :
        FailedRequest(History[i]) # 0 =>
            /\ History[i].outcome.kind = "returned"
            /\ History[i].attempted = Len(History[i].batch)

\* request k of the finished get_clips call h got an offset from
\* find_vod_timestamp
Resolved(h, k) ==
    \/ k < h.attempted
    \/ k = h.attempted /\ FailedRequest(h) = 0

\* play_data or {} of a request
RowOf(ts) == IF ts.play_data = None THEN EmptyDict ELSE ts.play_data[1]

\* C11: a get_clips call all of whose requests resolve returns one clip
\* descriptor per request, in input order, the k-th with the k-th request's
\* quarter, clock time and play metadata.
C11_OutputShape ==
    \A i \in Ops("get_clips") :
        LET h == History[i]
        IN  (\A k \in 1..Len(h.batch) : Resolved(h, k)) =>
                /\ h.outcome.kind = "returned"
                /\ Len(h.outcome.value) = Len(h.batch)
                /\ \A k \in 1..Len(h.batch) :
                      /\ h.outcome.value[k].quarter = h.batch[k].quarter
                      /\ h.outcome.value[k].game_time = h.batch[k].time
                      /\ h.outcome.value[k].play_type
                            = Get(RowOf(h.batch[k]), "play_type", "None")
                      /\ h.outcome.value[k].is_touchdown
                            = Get(RowOf(h.batch[k]), "touchdown", FALSE)

\* C12: the clip of every resolved request starts at max(0, offset - 5) and
\* ends at start + the duration of that request's own play data + the
\* caller's buffer, so not before its start.
C12_ClipTiming ==
    \A i \in Ops("get_clips") :
        LET h == History[i]
        IN  \A k \in 1..Len(h.batch) :
              ( /\ Resolved(h, k)
                /\ <<h.batch[k].quarter, h.batch[k].time>> \in DOMAIN mappings )
              => /\ k <= Len(h.clips)
                 /\ LET vod == mappings[<<h.batch[k].quarter, h.batch[k].time>>]
                        start == Max2(0, vod - Sec(PRE_PLAY_PADDING))
                    IN  /\ h.clips[k].start_time = start
                        /\ h.clips[k].end_time
                              = start + Sec(get_clip_duration(RowOf(h.batch[k]))) + h.buffer
                        /\ h.clips[k].end_time >= h.clips[k].start_time

\* C13: get_clips runs auto_index once, before it resolves any request,
\* exactly when the index it loaded holds no quarter start, and never
\* otherwise; no request is taken up while the scan is running.
C13_DiscoveryFirst ==
    /\ task.op = "get_clips" =>
          /\ task.discoveries = (IF DOMAIN task.loaded = {} THEN 1 ELSE 0)
          /\ task.phase = "auto_index" =>
                /\ task.i = 0 /\ task.clips = <<>>
                /\ search.pc # "idle" => search.caller = "auto_index"
          /\ task.i > 0 => task.phase = "resolve"
    /\ \A i \in Ops("get_clips") :
          History[i].discoveries = (IF DOMAIN History[i].loaded = {} THEN 1 ELSE 0)

\* a get_clips call that found no quarter start, scanned the video and then
\* went on to its first request
C13_Witness ==
    \E i \in Ops("get_clips") :
        /\ History[i].loaded = EmptyDict
        /\ History[i].discoveries = 1
        /\ History[i].attempted >= 1
        /\ History[i].calls # <<>>
        /\ is_indexed

\* C16: the VideoIndex that get_clips constructs holds the quarter starts
\* (under integer keys), mappings, readings and dead zones that were in
\* memory when the record was saved, and four empty collections when there
\* is no record.
C16_RoundTrip ==
    [][ (task.op = "idle" /\ task'.op = "get_clips") =>
            /\ quarters' = quarters
            /\ mappings' = mappings
            /\ known_frames' = known_frames
            /\ dead_zones' = dead_zones
            /\ DOMAIN quarters' \subseteq 1..5
            /\ disk = None =>
                  /\ quarters' = EmptyDict /\ mappings' = EmptyDict
                  /\ known_frames' = EmptyDict /\ dead_zones' = <<>> ]_vars

\* a second get_clips call has loaded the quarter starts, the mapping and the
\* readings the first one saved
C16_Witness ==
    /\ task.op = "get_clips"
    /\ Len(History) = 1
    /\ task.loaded = quarters /\ quarters # EmptyDict
    /\ mappings # EmptyDict
    /\ known_frames # EmptyDict
    /\ disk # None

\* the keys under which the search in flight has recorded its readings
InFlight ==
    IF search.pc = "idle" THEN {}
    ELSE {FrameKey(search.readings[i][1]) : i \in 1..Len(search.readings)}

\* C15: whenever the process stops, the index reloaded from the record holds
\* every quarter start, mapping and dead zone in memory, and every reading
\* but those of the one search in flight.
C15_CrashLoss ==
    /\ Loaded("quarters", EmptyDict) = quarters
    /\ Loaded("mappings", EmptyDict) = mappings
    /\ Loaded("dead_zones", <<>>) = dead_zones
    /\ \A k \in DOMAIN known_frames \ InFlight :
          /\ k \in DOMAIN Loaded("known_frames", EmptyDict)
          /\ Loaded("known_frames", EmptyDict)[k] = known_frames[k]

----------------------------------------------------------------------------
(* Two /analyze requests for one video at once.  The handlers are plain     *)
(* functions, which the server runs on worker threads; each get_clips call   *)
(* constructs its own VideoIndexer, so each thread has its own copy of the   *)
(* index and they share the persisted record only.  The index, search and    *)
(* calls variables are those of the thread that is running; task.parked      *)
(* keeps those of the other one.  A request is followed up to the return of  *)
(* its find_vod_timestamp call.                                              *)

Thread(id, target) ==
    [id |-> id, pc |-> "new", quarter |-> target[1], time |-> target[2], outcome |-> None]

RequestTargets == {<<2, <<14, 50>>>>, <<2, <<14, 49>>>>, <<1, <<8, 34>>>>}

InitRequests ==
    /\ duration = Sec(5000)
    /\ oracle = Linear(0, <<>>)
    /\ disk = Snapshot(TrueStarts, EmptyDict, EmptyDict, <<>>)
    /\ quarters = EmptyDict
    /\ mappings = EmptyDict
    /\ known_frames = EmptyDict
    /\ dead_zones = <<>>
    /\ search = NoSearch
    /\ calls = <<>>
    /\ \E a \in RequestTargets, b \in RequestTargets :
          task = [op |-> "requests", history |-> <<>>, me |-> Thread(1, a),
                  parked |-> [thread |-> Thread(2, b), quarters |-> EmptyDict,
                              mappings |-> EmptyDict, known_frames |-> EmptyDict,
                              dead_zones |-> <<>>, search |-> NoSearch, calls |-> <<>>]]

\* indexer = VideoIndexer(video_path): the index as persisted right now
RequestConstruct ==
    /\ task.op = "requests" /\ task.me.pc = "new"
    /\ quarters' = Loaded("quarters", EmptyDict)
    /\ mappings' = Loaded("mappings", EmptyDict)
    /\ known_frames' = Loaded("known_frames", EmptyDict)
    /\ dead_zones' = Loaded("dead_zones", <<>>)
    /\ task' = [task EXCEPT !.me.pc = "loaded"]
    /\ UNCHANGED <<duration, oracle, disk, search, calls>>

\* find_vod_timestamp up to its search
RequestResolve ==
    /\ task.op = "requests" /\ task.me.pc = "loaded"
    /\ LET st == FindVodStart(task.me.quarter, task.me.time)
       IN  IF st.kind = "search"
           THEN /\ search' = NewSession(task.me.quarter, task.me.time,
                                 get_quarter_range(task.me.quarter)[1][1],
                                 get_quarter_range(task.me.quarter)[1][2], 1,
                                 "find_vod_timestamp")
                /\ task' = [task EXCEPT !.me.pc = "search"]
           ELSE /\ task' = [task EXCEPT !.me.pc = "done", !.me.outcome = st]
                /\ UNCHANGED search
    /\ UNCHANGED <<duration, oracle, quarters, mappings, known_frames, dead_zones,
                   disk, calls>>

\* find_vod_timestamp after its search: set_mapping (which saves), or raise
RequestReturn ==
    /\ task.op = "requests" /\ task.me.pc = "search"
    /\ search.pc = "done"
    /\ LET out == FindVodEnd(search.result)
       IN  /\ task' = [task EXCEPT !.me.pc = "done", !.me.outcome = out]
           /\ IF out.kind = "returned"
              THEN /\ mappings' = DictSet(mappings, <<task.me.quarter, task.me.time>>,
                                          out.value)
                   /\ UNCHANGED <<quarters, known_frames, dead_zones>>
                   /\ save
              ELSE UNCHANGED <<quarters, mappings, known_frames, dead_zones, disk>>
    /\ search' = NoSearch
    /\ UNCHANGED <<duration, oracle, calls>>

\* the scheduler runs the other thread
Yield ==
    /\ task.op = "requests"
    /\ task.parked.thread.pc # "done"
    /\ quarters' = task.parked.quarters
    /\ mappings' = task.parked.mappings
    /\ known_frames' = task.parked.known_frames
    /\ dead_zones' = task.parked.dead_zones
    /\ search' = task.parked.search
    /\ calls' = task.parked.calls
    /\ task' = [task EXCEPT !.me = task.parked.thread,
                            !.parked = [thread |-> task.me, quarters |-> quarters,
                                        mappings |-> mappings,
                                        known_frames |-> known_frames,
                                        dead_zones |-> dead_zones,
                                        search |-> search, calls |-> calls]]
    /\ UNCHANGED <<duration, oracle, disk>>

NextRequests ==
    \/ RequestConstruct
    \/ RequestResolve
    \/ SearchIterate
    \/ RequestReturn
    \/ Yield

SpecRequests == InitRequests /\ [][NextRequests]_vars

\* what thread t wrote (its mapping, the readings frames of its index) is in
\* the persisted record
Persisted(t, frames) ==
    /\ t.outcome # None /\ t.outcome.kind = "returned" =>
          /\ <<t.quarter, t.time>> \in DOMAIN Loaded("mappings", EmptyDict)
          /\ Loaded("mappings", EmptyDict)[<<t.quarter, t.time>>] = t.outcome.value
    /\ \A k \in DOMAIN frames : k \in DOMAIN Loaded("known_frames", EmptyDict)

\* C17: when two concurrent requests for one video have both finished, the
\* persisted mappings and readings hold what each of them wrote.
C17_NoLostUpdate ==
    ( /\ task.op = "requests"
      /\ task.me.pc = "done"
      /\ task.parked.thread.pc = "done" )
    => /\ Persisted(task.me, known_frames)
       /\ Persisted(task.parked.thread, task.parked.known_frames)

----------------------------------------------------------------------------
(* Dead zone bookkeeping on its own: add_dead_zone on an empty index *)

MaxZoneAdds == 3

ZonePoints == {Sec(100), Sec(145), Sec(150), Sec(160), Sec(200), Sec(210),
               Sec(211), Sec(300), Sec(320)}

InitZones ==
    /\ duration = Sec(400)
    /\ oracle = [kind |-> "blind"]
    /\ quarters = EmptyDict
    /\ mappings = EmptyDict
    /\ known_frames = EmptyDict
    /\ dead_zones = <<>>
    /\ disk = None
    /\ search = NoSearch
    /\ calls = <<>>
    /\ task = [op |-> "zones", added |-> <<>>]

add_dead_zone(start, end) ==
    /\ task.op = "zones"
    /\ Len(task.added) < MaxZoneAdds
    /\ start <= end
    /\ dead_zones' = MergedZones(dead_zones, start, end)
    /\ task' = [task EXCEPT !.added = Append(@, <<start, end>>)]
    /\ UNCHANGED <<duration, oracle, quarters, mappings, known_frames, disk,
                   search, calls>>

NextZones == \E s \in ZonePoints, e \in ZonePoints : add_dead_zone(s, e)

SpecZones == InitZones /\ [][NextZones]_vars

\* C3: after any sequence of add_dead_zone(start, end) calls with
\* start <= end on an empty index, dead_zones is sorted by start, any two
\* distinct intervals are disjoint and more than 10 s apart, the intervals
\* cover exactly the union of what was added (every added interval lies in
\* one of them, every endpoint is an added endpoint); [100,150] then
\* [145,200] leaves exactly [100,200], and adding [300,320] leaves two.
C3_MergeClosure ==
    task.op = "zones" =>
        /\ \A i \in 1..Len(dead_zones) : \A j \in 1..Len(dead_zones) :
              i < j => dead_zones[i][2] + Sec(MergeGap) < dead_zones[j][1]
        /\ \A i \in 1..Len(dead_zones) : dead_zones[i][1] <= dead_zones[i][2]
        /\ \A k \in 1..Len(task.added) : \E i \in 1..Len(dead_zones) :
              dead_zones[i][1] <= task.added[k][1] /\ task.added[k][2] <= dead_zones[i][2]
        /\ \A i \in 1..Len(dead_zones) :
              /\ \E k \in 1..Len(task.added) : task.added[k][1] = dead_zones[i][1]
              /\ \E k \in 1..Len(task.added) : task.added[k][2] = dead_zones[i][2]
        /\ task.added = << <<Sec(100), Sec(150)>>, <<Sec(145), Sec(200)>> >>
              => dead_zones = << <<Sec(100), Sec(200)>> >>
        /\ task.added = << <<Sec(100), Sec(150)>>, <<Sec(145), Sec(200)>>,
                           <<Sec(300), Sec(320)>> >>
              => dead_zones = << <<Sec(100), Sec(200)>>, <<Sec(300), Sec(320)>> >>

\* the spec's example has run: three inserts, one merge, two intervals left
C3_Witness ==
    /\ task.op = "zones"
    /\ task.added = << <<Sec(100), Sec(150)>>, <<Sec(145), Sec(200)>>,
                       <<Sec(300), Sec(320)>> >>
    /\ Len(dead_zones) = 2

----------------------------------------------------------------------------
(* The persisted records of several videos.  Every VideoIndexer uses the    *)
(* same cache directory; disk is that directory here: cache file name ->    *)
(* record.  The index variables are those of the one indexer that is open,  *)
(* task.video its video path.                                               *)

\* a video path: parent directory / stem + suffix
VideoPath(parent, stem, suffix) == [parent |-> parent, stem |-> stem, suffix |-> suffix]

VideoPaths ==
    { VideoPath("data/week1", "49ers-Lions", ".mp4"),
      VideoPath("data/week2", "49ers-Lions", ".mp4"),
      VideoPath("data/week1", "49ers-Lions", ".mkv"),
      VideoPath("data/week1", "Chiefs-Bills", ".mp4") }

\* VideoIndex._cache_path: cache_dir / f"{Path(video_path).stem}.json"
cache_path(video_path) == <<".cache", video_path.stem, ".json">>

\* VideoIndex._load, one field: the file of this path, when it exists
LoadedFor(video_path, field, empty) ==
    LET data == disk[cache_path(video_path)]
    IN  IF data = None THEN empty
        ELSE IF field = "quarters" THEN IntKeys(data[1].quarters)
        ELSE data[1][field]

\* the index an indexer constructed now for video_path starts with
IndexFor(video_path) ==
    [quarters |-> LoadedFor(video_path, "quarters", EmptyDict),
     mappings |-> LoadedFor(video_path, "mappings", EmptyDict),
     known_frames |-> LoadedFor(video_path, "known_frames", EmptyDict),
     dead_zones |-> LoadedFor(video_path, "dead_zones", <<>>)]

\* VideoIndex.save of the open indexer
save_video ==
    disk' = [disk EXCEPT ![cache_path(task.video[1])] =
                Snapshot(quarters', mappings', known_frames', dead_zones')]

InitVideos ==
    /\ duration = Sec(5000)
    /\ oracle = Linear(0, <<>>)
    /\ disk = [f \in {cache_path(v) : v \in VideoPaths} |-> None]
    /\ quarters = EmptyDict
    /\ mappings = EmptyDict
    /\ known_frames = EmptyDict
    /\ dead_zones = <<>>
    /\ search = NoSearch
    /\ calls = <<>>
    /\ task = [op |-> "videos", video |-> None]

\* VideoIndexer(video_path): VideoIndex.__init__ and its _load
VideoConstruct(video_path) ==
    /\ task.op = "videos" /\ task.video = None
    /\ quarters' = IndexFor(video_path).quarters
    /\ mappings' = IndexFor(video_path).mappings
    /\ known_frames' = IndexFor(video_path).known_frames
    /\ dead_zones' = IndexFor(video_path).dead_zones
    /\ task' = [task EXCEPT !.video = Some(video_path)]
    /\ UNCHANGED <<duration, oracle, disk, search, calls>>

\* VideoIndex.set_quarter_start: in memory only
VideoSetQuarterStart(quarter, vod_seconds) ==
    /\ task.op = "videos" /\ task.video # None
    /\ quarters' = DictSet(quarters, quarter, vod_seconds)
    /\ UNCHANGED <<duration, oracle, mappings, known_frames, dead_zones, disk,
                   search, calls, task>>

\* VideoIndex.set_mapping, which saves
VideoSetMapping(quarter, game_time, vod_seconds) ==
    /\ task.op = "videos" /\ task.video # None
    /\ mappings' = DictSet(mappings, <<quarter, game_time>>, vod_seconds)
    /\ UNCHANGED <<quarters, known_frames, dead_zones>>
    /\ save_video
    /\ UNCHANGED <<duration, oracle, search, calls, task>>

\* VideoIndex.save
VideoSave ==
    /\ task.op = "videos" /\ task.video # None
    /\ UNCHANGED <<quarters, mappings, known_frames, dead_zones>>
    /\ save_video
    /\ UNCHANGED <<duration, oracle, search, calls, task>>

\* the clear_cache branch of /index: every field emptied, then save
VideoClearCache ==
    /\ task.op = "videos" /\ task.video # None
    /\ quarters' = EmptyDict
    /\ mappings' = EmptyDict
    /\ known_frames' = EmptyDict
    /\ dead_zones' = <<>>
    /\ save_video
    /\ UNCHANGED <<duration, oracle, search, calls, task>>

\* indexer.close(): the indexer is gone, its record stays
VideoClose ==
    /\ task.op = "videos" /\ task.video # None
    /\ quarters' = EmptyDict
    /\ mappings' = EmptyDict
    /\ known_frames' = EmptyDict
    /\ dead_zones' = <<>>
    /\ task' = [task EXCEPT !.video = None]
    /\ UNCHANGED <<duration, oracle, disk, search, calls>>

NextVideos ==
    \/ \E v \in VideoPaths : VideoConstruct(v)
    \/ \E q \in {1, 2}, t \in {0, Sec(1170)} : VideoSetQuarterStart(q, t)
    \/ VideoSetMapping(2, <<8, 34>>, Sec(1657))
    \/ VideoSave
    \/ VideoClearCache
    \/ VideoClose

SpecVideos == InitVideos /\ [][NextVideos]_vars

\* C29: whatever the open indexer of one video does (save, set_mapping,
\* clearing), the index that an indexer constructed later for any other
\* video path would load does not change: no two paths share a record.
C29_VideoIsolation ==
    [][(task.op = "videos" /\ task.video # None) =>
          \A v \in VideoPaths \ {task.video[1]} : IndexFor(v)' = IndexFor(v)]_vars

====
